---------------------------- MODULE Spec2Model ----------------------------
(***************************************************************************)
(* A model of django_dataclass_field/fields.py: the DataClassField column  *)
(* codec (to_python, validate, get_prep_value, from_db_value), the         *)
(* DataClassFormField form adapter (to_python, has_changed) and the schema *)
(* inferencer (generate_schema, parse_type, _lookup_scalar).               *)
(*                                                                         *)
(* Python values are tagged records.  A Python str is a sequence of        *)
(* one-character strings, so that JSON text is really parsed and really    *)
(* serialized, character by character.  The universe holds None, bool,     *)
(* int, str, list, dict with str keys, and dataclass instances.  Floats,   *)
(* negative numbers and \u escapes are outside it: no text of the model    *)
(* holds '-', '.', 'e' or 'E' next to a digit, or a backslash before 'u'.  *)
(*                                                                         *)
(* An intermediate result that the code binds to a local variable and      *)
(* reads more than once is passed to a helper operator as a parameter.     *)
(***************************************************************************)
EXTENDS Integers, Sequences, FiniteSets, TLC

(***************************************************************************)
(* Bounds of the model.                                                    *)
(***************************************************************************)
\* Raw texts are enumerated exhaustively up to this length.
MaxTextLen == 3
\* Record types for the schema inferencer have at most this many fields.
MaxFields == 2

(***************************************************************************)
(* Characters and strings.                                                 *)
(***************************************************************************)
QUOTE == "\""
BACKSLASH == "\\"

\* The code point of each character (Python compares str by code point;
\* json.dumps(sort_keys=True) sorts dict keys that way).  The last five
\* are control characters, named by their JSON escape letter.
Code ==
    (" " :> 32) @@ (QUOTE :> 34) @@ ("#" :> 35) @@ ("$" :> 36) @@
    ("'" :> 39) @@ ("," :> 44) @@ ("-" :> 45) @@ ("." :> 46) @@
    ("/" :> 47) @@ ("0" :> 48) @@ ("1" :> 49) @@ ("2" :> 50) @@
    ("3" :> 51) @@ ("4" :> 52) @@ ("5" :> 53) @@ ("6" :> 54) @@
    ("7" :> 55) @@ ("8" :> 56) @@ ("9" :> 57) @@ (":" :> 58) @@
    ("<" :> 60) @@ (">" :> 62) @@ ("A" :> 65) @@ ("B" :> 66) @@
    ("C" :> 67) @@ ("D" :> 68) @@ ("E" :> 69) @@ ("F" :> 70) @@
    ("G" :> 71) @@ ("H" :> 72) @@ ("I" :> 73) @@ ("J" :> 74) @@
    ("K" :> 75) @@ ("L" :> 76) @@ ("M" :> 77) @@ ("N" :> 78) @@
    ("O" :> 79) @@ ("P" :> 80) @@ ("Q" :> 81) @@ ("R" :> 82) @@
    ("S" :> 83) @@ ("T" :> 84) @@ ("U" :> 85) @@ ("V" :> 86) @@
    ("W" :> 87) @@ ("X" :> 88) @@ ("Y" :> 89) @@ ("Z" :> 90) @@
    ("[" :> 91) @@ (BACKSLASH :> 92) @@ ("]" :> 93) @@ ("a" :> 97) @@
    ("b" :> 98) @@ ("c" :> 99) @@ ("d" :> 100) @@ ("e" :> 101) @@
    ("f" :> 102) @@ ("g" :> 103) @@ ("h" :> 104) @@ ("i" :> 105) @@
    ("j" :> 106) @@ ("k" :> 107) @@ ("l" :> 108) @@ ("m" :> 109) @@
    ("n" :> 110) @@ ("o" :> 111) @@ ("p" :> 112) @@ ("q" :> 113) @@
    ("r" :> 114) @@ ("s" :> 115) @@ ("t" :> 116) @@ ("u" :> 117) @@
    ("v" :> 118) @@ ("w" :> 119) @@ ("x" :> 120) @@ ("y" :> 121) @@
    ("z" :> 122) @@ ("{" :> 123) @@ ("|" :> 124) @@ ("}" :> 125) @@
    ("^b" :> 8) @@ ("^t" :> 9) @@ ("^n" :> 10) @@ ("^f" :> 12) @@ ("^r" :> 13)

Digits == {"0", "1", "2", "3", "4", "5", "6", "7", "8", "9"}

\* Python's str comparison a < b (lexicographic by code point).
RECURSIVE StrLess(_, _)
StrLess(a, b) ==
    IF b = <<>> THEN FALSE
    ELSE IF a = <<>> THEN TRUE
    ELSE IF Head(a) # Head(b) THEN Code[Head(a)] < Code[Head(b)]
    ELSE StrLess(Tail(a), Tail(b))

\* Python's s.startswith(p).
StartsWith(s, p) == Len(s) >= Len(p) /\ SubSeq(s, 1, Len(p)) = p

\* Python's `sub in s` for two strs.
Contains(s, sub) ==
    \E i \in 1..(Len(s) + 1) :
        i + Len(sub) - 1 <= Len(s) /\ SubSeq(s, i, i + Len(sub) - 1) = sub

\* Python's s.strip() (the only whitespace of the model is the space).
RECURSIVE LStrip(_)
LStrip(s) == IF s # <<>> /\ Head(s) = " " THEN LStrip(Tail(s)) ELSE s
RECURSIVE RStrip(_)
RStrip(s) ==
    IF s # <<>> /\ s[Len(s)] = " " THEN RStrip(SubSeq(s, 1, Len(s) - 1)) ELSE s
Strip(s) == RStrip(LStrip(s))

\* The set of elements of a sequence.
Range(seq) == {seq[i] : i \in 1..Len(seq)}

(***************************************************************************)
(* Python values.                                                          *)
(***************************************************************************)
PNone == [t |-> "None"]
PBool(b) == [t |-> "bool", b |-> b]
PInt(n) == [t |-> "int", n |-> n]
PStr(s) == [t |-> "str", s |-> s]
\* django.forms.fields.JSONString, a subclass of str
JSONString(s) == [t |-> "JSONString", s |-> s]
PList(xs) == [t |-> "list", xs |-> xs]
\* a dict keeps insertion order: a sequence of <<key, value>>, keys distinct
PDict(items) == [t |-> "dict", items |-> items]
\* an instance of the dataclass named cls
PInst(cls, items) == [t |-> "inst", cls |-> cls, items |-> items]

IsStr(v) == v.t \in {"str", "JSONString"}

Keys(items) == {items[i][1] : i \in 1..Len(items)}
HasKey(items, k) == \E i \in 1..Len(items) : items[i][1] = k
Lookup(items, k) == items[CHOOSE i \in 1..Len(items) : items[i][1] = k][2]

\* d[k] = v on a dict's items: replaces in place, or appends.
SetItem(items, k, v) ==
    IF HasKey(items, k)
    THEN [i \in 1..Len(items) |-> IF items[i][1] = k THEN <<k, v>> ELSE items[i]]
    ELSE Append(items, <<k, v>>)

\* The number a bool or an int is in a comparison.
NumberOf(v) == IF v.t = "bool" THEN (IF v.b THEN 1 ELSE 0) ELSE v.n

\* Python's == on the values of the model: True == 1 and False == 0, a
\* JSONString equals the str of the same characters, dicts compare without
\* regard to order, lists element by element, dataclass instances by class
\* and fields.
RECURSIVE PyEq(_, _)
PyEq(a, b) ==
    IF a.t \in {"bool", "int"} /\ b.t \in {"bool", "int"}
    THEN NumberOf(a) = NumberOf(b)
    ELSE IF IsStr(a) /\ IsStr(b) THEN a.s = b.s
    ELSE IF a.t = "None" /\ b.t = "None" THEN TRUE
    ELSE IF a.t = "list" /\ b.t = "list"
         THEN /\ Len(a.xs) = Len(b.xs)
              /\ \A i \in 1..Len(a.xs) : PyEq(a.xs[i], b.xs[i])
    ELSE IF a.t = "dict" /\ b.t = "dict"
         THEN /\ Keys(a.items) = Keys(b.items)
              /\ \A k \in Keys(a.items) :
                    PyEq(Lookup(a.items, k), Lookup(b.items, k))
    ELSE IF a.t = "inst" /\ b.t = "inst"
         THEN /\ a.cls = b.cls
              /\ Len(a.items) = Len(b.items)
              /\ \A i \in 1..Len(a.items) :
                    /\ a.items[i][1] = b.items[i][1]
                    /\ PyEq(a.items[i][2], b.items[i][2])
    ELSE FALSE

(***************************************************************************)
(* json.loads and json.dumps, as the standard library computes them.       *)
(***************************************************************************)
NoParse == [ok |-> FALSE]
Parsed(v, next) == [ok |-> TRUE, val |-> v, next |-> next]

RECURSIVE SkipWs(_, _)
SkipWs(s, i) == IF i <= Len(s) /\ s[i] = " " THEN SkipWs(s, i + 1) ELSE i

\* The characters a backslash escape stands for.
Unescape ==
    (QUOTE :> QUOTE) @@ (BACKSLASH :> BACKSLASH) @@ ("/" :> "/") @@
    ("b" :> "^b") @@ ("t" :> "^t") @@ ("n" :> "^n") @@ ("f" :> "^f") @@
    ("r" :> "^r")
ControlChars == {"^b", "^t", "^n", "^f", "^r"}

\* The body of a string literal from position i (after the opening quote);
\* acc, the characters read so far, is never longer than s.
RECURSIVE ScanString(_, _, _)
ScanString(s, i, acc) ==
    IF i > Len(s) \/ Len(acc) > Len(s) THEN NoParse
    ELSE IF s[i] = QUOTE THEN Parsed(acc, i + 1)
    ELSE IF s[i] = BACKSLASH
         THEN IF i + 1 <= Len(s) /\ s[i + 1] \in DOMAIN Unescape
              THEN ScanString(s, i + 2, Append(acc, Unescape[s[i + 1]]))
              ELSE NoParse
    ELSE IF s[i] \in ControlChars THEN NoParse
    ELSE ScanString(s, i + 1, Append(acc, s[i]))

StringValue(r) == IF r.ok THEN Parsed(PStr(r.val), r.next) ELSE NoParse

\* The digits of an integer literal from position i: 0 | [1-9][0-9]*.
RECURSIVE ScanDigits(_, _, _)
ScanDigits(s, i, n) ==
    IF i <= Len(s) /\ s[i] \in Digits
    THEN ScanDigits(s, i + 1, 10 * n + (Code[s[i]] - 48))
    ELSE Parsed(PInt(n), i)
ScanNumber(s, i) ==
    IF s[i] = "0" THEN Parsed(PInt(0), i + 1) ELSE ScanDigits(s, i, 0)

Literal(s, i, word) ==
    i + Len(word) - 1 <= Len(s) /\ SubSeq(s, i, i + Len(word) - 1) = word

RECURSIVE ScanValue(_, _)
RECURSIVE ScanObject(_, _)
RECURSIVE ScanMembers(_, _, _)
RECURSIVE MemberKey(_, _, _)
RECURSIVE MemberColon(_, _, _, _)
RECURSIVE MemberValue(_, _, _, _)
RECURSIVE MemberEnd(_, _, _)
RECURSIVE ScanArray(_, _)
RECURSIVE ScanElements(_, _, _)
RECURSIVE ElementValue(_, _, _)
RECURSIVE ElementEnd(_, _, _)

\* One JSON value starting at position i (the caller has skipped the
\* whitespace before it).
ScanValue(s, i) ==
    IF i > Len(s) THEN NoParse
    ELSE IF s[i] = QUOTE THEN StringValue(ScanString(s, i + 1, <<>>))
    ELSE IF s[i] = "{" THEN ScanObject(s, SkipWs(s, i + 1))
    ELSE IF s[i] = "[" THEN ScanArray(s, SkipWs(s, i + 1))
    ELSE IF s[i] \in Digits THEN ScanNumber(s, i)
    ELSE IF Literal(s, i, <<"t", "r", "u", "e">>) THEN Parsed(PBool(TRUE), i + 4)
    ELSE IF Literal(s, i, <<"f", "a", "l", "s", "e">>)
         THEN Parsed(PBool(FALSE), i + 5)
    ELSE IF Literal(s, i, <<"n", "u", "l", "l">>) THEN Parsed(PNone, i + 4)
    ELSE NoParse

\* An object from position j, after the opening brace and whitespace.
ScanObject(s, j) ==
    IF j <= Len(s) /\ s[j] = "}" THEN Parsed(PDict(<<>>), j + 1)
    ELSE ScanMembers(s, j, <<>>)

\* "key": value pairs up to the closing brace; a repeated key keeps its
\* first position and takes the last value, as a Python dict does.
ScanMembers(s, i, acc) ==
    IF i > Len(s) \/ s[i] # QUOTE THEN NoParse
    ELSE MemberKey(s, ScanString(s, i + 1, <<>>), acc)
MemberKey(s, k, acc) ==
    IF ~k.ok THEN NoParse ELSE MemberColon(s, k.val, SkipWs(s, k.next), acc)
MemberColon(s, key, c, acc) ==
    IF c > Len(s) \/ s[c] # ":" THEN NoParse
    ELSE MemberValue(s, key, ScanValue(s, SkipWs(s, c + 1)), acc)
MemberValue(s, key, v, acc) ==
    IF ~v.ok THEN NoParse
    ELSE MemberEnd(s, SetItem(acc, key, v.val), SkipWs(s, v.next))
MemberEnd(s, items, e) ==
    IF e > Len(s) THEN NoParse
    ELSE IF s[e] = "}" THEN Parsed(PDict(items), e + 1)
    ELSE IF s[e] = "," THEN ScanMembers(s, SkipWs(s, e + 1), items)
    ELSE NoParse

\* An array from position j, after the opening bracket and whitespace.
ScanArray(s, j) ==
    IF j <= Len(s) /\ s[j] = "]" THEN Parsed(PList(<<>>), j + 1)
    ELSE ScanElements(s, j, <<>>)
ScanElements(s, i, acc) == ElementValue(s, ScanValue(s, i), acc)
ElementValue(s, v, acc) ==
    IF ~v.ok THEN NoParse
    ELSE ElementEnd(s, Append(acc, v.val), SkipWs(s, v.next))
ElementEnd(s, xs, e) ==
    IF e > Len(s) THEN NoParse
    ELSE IF s[e] = "]" THEN Parsed(PList(xs), e + 1)
    ELSE IF s[e] = "," THEN ScanElements(s, SkipWs(s, e + 1), xs)
    ELSE NoParse

\* The document is the value r when only whitespace follows it.
WholeDocument(s, r) ==
    IF r.ok /\ SkipWs(s, r.next) > Len(s) THEN [ok |-> TRUE, val |-> r.val]
    ELSE NoParse

\* json.loads(s): [ok |-> TRUE, val |-> v], or [ok |-> FALSE] where Python
\* raises json.JSONDecodeError (no value, or extra data after the value).
json_loads(s) == WholeDocument(s, ScanValue(s, SkipWs(s, 1)))

\* The decimal digits of a natural number.
DigitOf(d) == CHOOSE c \in Digits : Code[c] - 48 = d
RECURSIVE IntDigits(_)
IntDigits(n) ==
    IF n < 10 THEN <<DigitOf(n)>>
    ELSE Append(IntDigits(n \div 10), DigitOf(n % 10))

\* What json.dumps writes for a character inside a string literal.
EscapeChar(c) ==
    IF c = QUOTE THEN <<BACKSLASH, QUOTE>>
    ELSE IF c = BACKSLASH THEN <<BACKSLASH, BACKSLASH>>
    ELSE IF c \in ControlChars
         THEN <<BACKSLASH, CHOOSE x \in DOMAIN Unescape : Unescape[x] = c>>
    ELSE <<c>>
RECURSIVE EscapeStr(_)
EscapeStr(s) ==
    IF s = <<>> THEN <<>> ELSE EscapeChar(Head(s)) \o EscapeStr(Tail(s))
StrLiteral(s) == <<QUOTE>> \o EscapeStr(s) \o <<QUOTE>>

\* sorted(items) by key, as json.dumps(sort_keys=True) orders a dict.
MinKeyAt(items) ==
    CHOOSE i \in 1..Len(items) :
        \A j \in 1..Len(items) : ~StrLess(items[j][1], items[i][1])
RemoveAt(seq, m) ==
    [j \in 1..(Len(seq) - 1) |-> IF j < m THEN seq[j] ELSE seq[j + 1]]
RECURSIVE SortItems(_)
RECURSIVE SortFrom(_, _)
SortItems(items) ==
    IF items = <<>> THEN <<>> ELSE SortFrom(items, MinKeyAt(items))
SortFrom(items, m) == <<items[m]>> \o SortItems(RemoveAt(items, m))

\* Whether json.dumps can serialize v (a dataclass instance is not JSON
\* serializable: TypeError).
RECURSIVE Serializable(_)
Serializable(v) ==
    IF v.t = "inst" THEN FALSE
    ELSE IF v.t = "list" THEN \A i \in 1..Len(v.xs) : Serializable(v.xs[i])
    ELSE IF v.t = "dict"
         THEN \A i \in 1..Len(v.items) : Serializable(v.items[i][2])
    ELSE TRUE

RECURSIVE json_dumps(_, _)
RECURSIVE DumpItems(_, _)
RECURSIVE DumpElements(_, _)
\* json.dumps(v, sort_keys=sort_keys) with the default separators.
json_dumps(v, sort_keys) ==
    IF v.t = "None" THEN <<"n", "u", "l", "l">>
    ELSE IF v.t = "bool"
         THEN IF v.b THEN <<"t", "r", "u", "e">> ELSE <<"f", "a", "l", "s", "e">>
    ELSE IF v.t = "int" THEN IntDigits(v.n)
    ELSE IF IsStr(v) THEN StrLiteral(v.s)
    ELSE IF v.t = "list"
         THEN <<"[">> \o DumpElements(v.xs, sort_keys) \o <<"]">>
    ELSE <<"{">>
         \o DumpItems(IF sort_keys THEN SortItems(v.items) ELSE v.items, sort_keys)
         \o <<"}">>
DumpItems(items, sort_keys) ==
    IF items = <<>> THEN <<>>
    ELSE StrLiteral(Head(items)[1]) \o <<":", " ">>
         \o json_dumps(Head(items)[2], sort_keys)
         \o (IF Len(items) > 1 THEN <<",", " ">> ELSE <<>>)
         \o DumpItems(Tail(items), sort_keys)
DumpElements(xs, sort_keys) ==
    IF xs = <<>> THEN <<>>
    ELSE json_dumps(Head(xs), sort_keys)
         \o (IF Len(xs) > 1 THEN <<",", " ">> ELSE <<>>)
         \o DumpElements(Tail(xs), sort_keys)

(***************************************************************************)
(* Record types (dataclasses) and their instances.                         *)
(***************************************************************************)
\* dataclasses.MISSING, the default of a field declared without one
MISSING == [t |-> "MISSING"]

\* The declared type of a field.  form = "class" when the annotation was
\* evaluated to a type object (the usual case, as in examples/car_app), and
\* "string" when it is kept as source text (postponed evaluation).
\* shape is "scalar", "optional", "list" or "union"; args names the scalars.
Annotation(form, shape, args) == [form |-> form, shape |-> shape, args |-> args]
Field(name, type, default, init) ==
    [name |-> name, type |-> type, default |-> default, init |-> init]
RecordType(name, fields) == [name |-> name, fields |-> fields]

s_str == <<"s", "t", "r">>
s_int == <<"i", "n", "t">>
s_float == <<"f", "l", "o", "a", "t">>
s_dict == <<"d", "i", "c", "t">>
s_list == <<"l", "i", "s", "t">>
s_bool == <<"b", "o", "o", "l">>
s_None == <<"N", "o", "n", "e">>
s_Foo == <<"F", "o", "o">>

ClassOf(scalar) == Annotation("class", "scalar", <<scalar>>)

f_brand == <<"b", "r", "a", "n", "d">>
f_model == <<"m", "o", "d", "e", "l">>
f_year == <<"y", "e", "a", "r">>
f_color == <<"c", "o", "l", "o", "r">>

\* examples/car_app/models.py
Car ==
    RecordType("Car",
        << Field(f_brand, ClassOf(s_str), MISSING, TRUE),
           Field(f_model, ClassOf(s_str), MISSING, TRUE),
           Field(f_year, ClassOf(s_int), MISSING, TRUE),
           Field(f_color, ClassOf(s_str), MISSING, TRUE) >>)

\* Two further record types a column may be declared with: one with a
\* defaulted field, one with a dict-typed field.
Pin ==
    RecordType("Pin",
        << Field(<<"a">>, ClassOf(s_str), MISSING, TRUE),
           Field(<<"n">>, ClassOf(s_int), PInt(1), TRUE) >>)
Box ==
    RecordType("Box", << Field(<<"d">>, ClassOf(s_dict), MISSING, TRUE) >>)

CodecTypes == {Car, Pin, Box}

\* Python's isinstance(value, data_class)
IsInstanceOf(value, data_class) == value.t = "inst" /\ value.cls = data_class.name

\* dacite's is_instance(value, type) for a scalar annotation.
ScalarInstance(value, n) ==
    IF n = s_str THEN IsStr(value)
    ELSE IF n = s_int THEN value.t \in {"int", "bool"}
    ELSE IF n = s_bool THEN value.t = "bool"
    ELSE IF n = s_dict THEN value.t = "dict"
    ELSE IF n = s_list THEN value.t = "list"
    ELSE IF n = s_None THEN value.t = "None"
    ELSE FALSE
is_instance(value, type) == ScalarInstance(value, type.args[1])

\* dataclasses.asdict: deep, nested instances become dicts too.
RECURSIVE asdict(_)
asdict(v) ==
    IF v.t \in {"inst", "dict"}
    THEN PDict([i \in 1..Len(v.items) |-> <<v.items[i][1], asdict(v.items[i][2])>>])
    ELSE IF v.t = "list" THEN PList([i \in 1..Len(v.xs) |-> asdict(v.xs[i])])
    ELSE v

(***************************************************************************)
(* Outcomes of a call: a returned value or a raised exception.             *)
(***************************************************************************)
Return(v) == [k |-> "return", val |-> v]
Raise(exc) == [k |-> "raise", exc |-> exc]
ValidationError(message, code, value) ==
    [k |-> "raise", exc |-> "ValidationError", message |-> message,
     code |-> code, value |-> value]

(***************************************************************************)
(* dacite.from_dict(data_class, data, config), for scalar-typed fields.    *)
(* cast is TRUE for config=Config(cast=[Enum, Dict]).                      *)
(***************************************************************************)
\* Python's `name in data`: [ok |-> FALSE] is the TypeError of a value that
\* is not a container.
InData(name, data) ==
    IF data.t = "dict" THEN [ok |-> TRUE, val |-> HasKey(data.items, name)]
    ELSE IF IsStr(data) THEN [ok |-> TRUE, val |-> Contains(data.s, name)]
    ELSE IF data.t = "list"
         THEN [ok |-> TRUE,
               val |-> \E i \in 1..Len(data.xs) : PyEq(data.xs[i], PStr(name))]
    ELSE [ok |-> FALSE]

\* Python's dict(data), the cast that Config(cast=[Enum, Dict]) applies to
\* the data of a dict-typed field.
DictCast(data) ==
    IF data.t = "dict" THEN Return(data)
    ELSE IF IsStr(data)
         THEN IF data.s = <<>> THEN Return(PDict(<<>>)) ELSE Raise("ValueError")
    ELSE IF data.t = "list"
         THEN IF data.xs = <<>> THEN Return(PDict(<<>>))
              ELSE IF \E i \in 1..Len(data.xs) :
                         ~IsStr(data.xs[i]) /\ data.xs[i].t # "list"
                   THEN Raise("TypeError")
              ELSE Raise("ValueError")
    ELSE Raise("TypeError")

\* dacite's _build_value for a scalar annotation.
build_value(type, data, cast) ==
    IF cast /\ type.args[1] = s_dict THEN DictCast(data) ELSE Return(data)

RECURSIVE FromDictFields(_, _, _, _)
RECURSIVE FieldFromData(_, _, _, _, _)
RECURSIVE FieldBuilt(_, _, _, _, _)
\* The loop of from_dict over the fields of the data class; acc holds the
\* values collected for the fields seen so far.
FromDictFields(fields, data, cast, acc) ==
    IF fields = <<>> THEN Return(acc)
    ELSE FieldFromData(fields, data, cast, acc, InData(Head(fields).name, data))
\* One field, given whether its name is in the data.
FieldFromData(fields, data, cast, acc, present) ==
    IF ~present.ok THEN Raise("TypeError")
    ELSE IF present.val
    THEN IF data.t # "dict" THEN Raise("TypeError")
         ELSE FieldBuilt(fields, data, cast, acc,
                  build_value(Head(fields).type,
                              Lookup(data.items, Head(fields).name), cast))
    ELSE IF Head(fields).default # MISSING
         THEN FromDictFields(Tail(fields), data, cast,
                  Append(acc, <<Head(fields).name, Head(fields).default>>))
    ELSE IF ~Head(fields).init THEN FromDictFields(Tail(fields), data, cast, acc)
    ELSE Raise("MissingValueError")
\* One field, given the value built for it: the type check.
FieldBuilt(fields, data, cast, acc, built) ==
    IF built.k = "raise" THEN built
    ELSE IF ~is_instance(built.val, Head(fields).type) THEN Raise("WrongTypeError")
    ELSE FromDictFields(Tail(fields), data, cast,
             Append(acc, <<Head(fields).name, built.val>>))

Construct(data_class, r) ==
    IF r.k = "raise" THEN r ELSE Return(PInst(data_class.name, r.val))

from_dict(data_class, data, cast) ==
    Construct(data_class, FromDictFields(data_class.fields, data, cast, <<>>))

(***************************************************************************)
(* DataClassField, the column codec.                                       *)
(***************************************************************************)
TypeMessage(data_class) == "Value must be of type " \o data_class.name

\* The try block of to_python: the two except clauses turn ValidationError
\* and MissingValueError into the field's ValidationError.
Hydrated(data_class, value, r) ==
    IF r.k = "raise" /\ r.exc \in {"ValidationError", "MissingValueError"}
    THEN ValidationError(TypeMessage(data_class), "invalid", value)
    ELSE r

\* to_python after obj is bound: parsed is json.loads(value) for a str,
\* and the value itself otherwise.
HydrateParsed(data_class, value, parsed) ==
    IF ~parsed.ok THEN Raise("JSONDecodeError")
    ELSE Hydrated(data_class, value, from_dict(data_class, parsed.val, FALSE))

\* DataClassField.to_python
to_python(data_class, value) ==
    IF value.t = "None" THEN Return(value)
    ELSE IF IsInstanceOf(value, data_class) THEN Return(value)
    ELSE HydrateParsed(data_class, value,
             IF IsStr(value) THEN json_loads(value.s)
             ELSE [ok |-> TRUE, val |-> value])

\* validate as it would be if it accepted whatever hydrates.
validate_hydrating(data_class, value) ==
    IF to_python(data_class, value).k = "return" THEN Return(PNone)
    ELSE ValidationError(TypeMessage(data_class), "invalid", value)

\* DataClassField.validate
validate(data_class, value) ==
    IF value.t = "None" THEN Return(PNone)
    ELSE IF IsInstanceOf(value, data_class) THEN Return(PNone)
    ELSE ValidationError(TypeMessage(data_class), "invalid", value)

\* JSONField.get_prep_value, the storage primitive's outbound conversion:
\* the value it is handed is the value the database adapter serializes.
JSONField_get_prep_value(value) == Return(value)

\* The branch of get_prep_value for a value that is not an instance: gate
\* is the outcome of self.to_python(value), whose result is dropped.
Gated(value, gate) ==
    IF gate.k = "raise" THEN gate ELSE JSONField_get_prep_value(value)

\* get_prep_value as it would be without the asdict of an instance.
get_prep_value_raw(data_class, value) ==
    IF value.t = "None" THEN Return(value)
    ELSE IF ~IsInstanceOf(value, data_class)
         THEN Gated(value, to_python(data_class, value))
    ELSE JSONField_get_prep_value(value)

\* DataClassField.get_prep_value
get_prep_value(data_class, value) ==
    IF value.t = "None" THEN Return(value)
    ELSE IF ~IsInstanceOf(value, data_class)
         THEN Gated(value, to_python(data_class, value))
    ELSE JSONField_get_prep_value(asdict(value))

\* JSONField.from_db_value: NULL stays None, text is parsed, text that does
\* not parse is returned as it is.
ParsedOrRaw(stored, p) == IF p.ok THEN p.val ELSE stored
JSONField_from_db_value(stored) ==
    IF stored.t = "None" THEN stored ELSE ParsedOrRaw(stored, json_loads(stored.s))

\* from_db_value after from_db is bound.
HydrateStored(data_class, from_db) ==
    IF from_db.t = "None" THEN Return(from_db)
    ELSE from_dict(data_class, from_db, TRUE)

\* DataClassField.from_db_value
from_db_value(data_class, stored) ==
    HydrateStored(data_class, JSONField_from_db_value(stored))

(***************************************************************************)
(* DataClassFormField, the form field adapter.                             *)
(***************************************************************************)
\* default_error_messages["invalid"]
InvalidMessage == "Enter valid JSON representation of the Dataclass."

\* Field.empty_values: `value in [None, "", [], (), {}]` compares with ==.
EmptyValues == {PNone, PStr(<<>>), PList(<<>>), PDict(<<>>)}
InEmptyValues(value) == \E e \in EmptyValues : PyEq(value, e)

\* The end of to_python as it would be without the except clause.
Converted_uncaught(value, converted) ==
    IF ~converted.ok THEN Raise("JSONDecodeError")
    ELSE IF IsStr(converted.val) THEN Return(JSONString(converted.val.s))
    ELSE Return(converted.val)

\* The end of to_python: converted is the outcome of json.loads(value).
Converted(value, converted) ==
    IF ~converted.ok THEN ValidationError(InvalidMessage, "invalid", value)
    ELSE IF IsStr(converted.val) THEN Return(JSONString(converted.val.s))
    ELSE Return(converted.val)

\* DataClassFormField.to_python (json.loads of a value that is no str
\* raises TypeError)
form_to_python(disabled, value) ==
    IF disabled THEN Return(value)
    ELSE IF InEmptyValues(value) THEN Return(PNone)
    ELSE IF value.t \in {"list", "dict", "int", "bool", "JSONString"}
         THEN Return(value)
    ELSE IF value.t # "str" THEN Raise("TypeError")
    ELSE Converted(value, json_loads(value.s))

\* None counts as "" in Field.has_changed.
OrEmpty(v) == IF v.t # "None" THEN v ELSE PStr(<<>>)

\* Field.has_changed after the try block: r is the outcome of
\* self.to_python(data).
ChangedAfter(initial, r) ==
    IF r.k = "raise"
    THEN IF r.exc = "ValidationError" THEN Return(PBool(TRUE)) ELSE r
    ELSE Return(PBool(~PyEq(OrEmpty(initial), OrEmpty(r.val))))

\* django.forms.Field.has_changed, which forms.JSONField.has_changed calls
\* first.
Field_has_changed(disabled, initial, data) ==
    IF disabled THEN Return(PBool(FALSE))
    ELSE ChangedAfter(initial, form_to_python(disabled, data))

\* The comparison as it would be without sort_keys=True.
DumpsDifferAfter_unsorted(initial, r) ==
    IF ~Serializable(initial) THEN Raise("TypeError")
    ELSE IF r.k = "raise" THEN r
    ELSE IF ~Serializable(r.val) THEN Raise("TypeError")
    ELSE Return(PBool(json_dumps(initial, FALSE) # json_dumps(r.val, FALSE)))

\* json.dumps(initial, sort_keys=True) != json.dumps(r, sort_keys=True),
\* for r the outcome of self.to_python(data).
DumpsDifferAfter(initial, r) ==
    IF ~Serializable(initial) THEN Raise("TypeError")
    ELSE IF r.k = "raise" THEN r
    ELSE IF ~Serializable(r.val) THEN Raise("TypeError")
    ELSE Return(PBool(json_dumps(initial, TRUE) # json_dumps(r.val, TRUE)))

\* The comparison of the two canonical serializations that both
\* forms.JSONField.has_changed and DataClassFormField.has_changed end with.
DumpsDiffer(disabled, initial, data) ==
    DumpsDifferAfter(initial, form_to_python(disabled, data))

\* `if super().has_changed(initial, data): return True`, then the
\* comparison: r is the outcome of super().has_changed.
ChangedOrDumpsDiffer(r, disabled, initial, data) ==
    IF r.k = "raise" \/ r.val.b THEN r ELSE DumpsDiffer(disabled, initial, data)

\* django.forms.JSONField.has_changed, the super() of the adapter
JSONField_has_changed(disabled, initial, data) ==
    ChangedOrDumpsDiffer(Field_has_changed(disabled, initial, data),
                         disabled, initial, data)

\* DataClassFormField.has_changed
has_changed(disabled, initial, data) ==
    ChangedOrDumpsDiffer(JSONField_has_changed(disabled, initial, data),
                         disabled, initial, data)

(***************************************************************************)
(* The schema inferencer.                                                  *)
(***************************************************************************)
\* str(dc_field.type): an annotation kept as source text is that text; an
\* evaluated scalar is the repr of its class ("<class 'int'>", and "None"
\* for None itself); typing.Optional[T] and typing.List[T] print with their
\* module; a union X | Y prints as written.
RECURSIVE JoinUnion(_)
JoinUnion(args) ==
    IF Len(args) = 1 THEN args[1]
    ELSE args[1] \o <<" ", "|", " ">> \o JoinUnion(Tail(args))
TypingPrefix(type) ==
    IF type.form = "class" THEN <<"t", "y", "p", "i", "n", "g", ".">> ELSE <<>>
TypeStr(type) ==
    IF type.shape = "scalar"
    THEN IF type.form = "class" /\ type.args[1] # s_None
         THEN <<"<", "c", "l", "a", "s", "s", " ", "'">> \o type.args[1] \o <<"'", ">">>
         ELSE type.args[1]
    ELSE IF type.shape = "optional"
    THEN TypingPrefix(type) \o <<"O", "p", "t", "i", "o", "n", "a", "l", "[">>
         \o type.args[1] \o <<"]">>
    ELSE IF type.shape = "list"
    THEN TypingPrefix(type) \o <<"L", "i", "s", "t", "[">> \o type.args[1] \o <<"]">>
    ELSE JoinUnion(type.args)

\* Python's s.split(sep) for a one-character separator.
FirstAt(s, sep) ==
    CHOOSE j \in 1..Len(s) : s[j] = sep /\ \A m \in 1..(j - 1) : s[m] # sep
RECURSIVE Split(_, _)
RECURSIVE SplitAt(_, _, _)
Split(s, sep) ==
    IF \A i \in 1..Len(s) : s[i] # sep THEN <<s>>
    ELSE SplitAt(s, sep, FirstAt(s, sep))
SplitAt(s, sep, i) ==
    <<SubSeq(s, 1, i - 1)>> \o Split(SubSeq(s, i + 1, Len(s)), sep)

\* Python's s[lo:-1]
SliceToLast(s, lo) == SubSeq(s, lo + 1, Len(s) - 1)

v_string == <<"s", "t", "r", "i", "n", "g">>
v_number == <<"n", "u", "m", "b", "e", "r">>
v_object == <<"o", "b", "j", "e", "c", "t">>
v_array == <<"a", "r", "r", "a", "y">>
v_boolean == <<"b", "o", "o", "l", "e", "a", "n">>
v_null == <<"n", "u", "l", "l">>

\* _lookup_scalar: [ok |-> FALSE] is the ValueError of an unhandled type.
lookup_scalar(type_hint) ==
    IF type_hint = s_str THEN [ok |-> TRUE, val |-> v_string]
    ELSE IF type_hint = s_int \/ type_hint = s_float THEN [ok |-> TRUE, val |-> v_number]
    ELSE IF type_hint = s_dict THEN [ok |-> TRUE, val |-> v_object]
    ELSE IF type_hint = s_list THEN [ok |-> TRUE, val |-> v_array]
    ELSE IF type_hint = s_bool THEN [ok |-> TRUE, val |-> v_boolean]
    ELSE IF type_hint = s_None THEN [ok |-> TRUE, val |-> v_null]
    ELSE [ok |-> FALSE]

k_type == <<"t", "y", "p", "e">>
k_anyOf == <<"a", "n", "y", "O", "f">>
k_items == <<"i", "t", "e", "m", "s">>
k_default == <<"d", "e", "f", "a", "u", "l", "t">>
k_schema == <<"$", "s", "c", "h", "e", "m", "a">>
k_properties == <<"p", "r", "o", "p", "e", "r", "t", "i", "e", "s">>
k_required == <<"r", "e", "q", "u", "i", "r", "e", "d">>
k_additionalProperties ==
    <<"a", "d", "d", "i", "t", "i", "o", "n", "a", "l",
      "P", "r", "o", "p", "e", "r", "t", "i", "e", "s">>
Draft07 ==
    <<"h", "t", "t", "p", ":", "/", "/", "j", "s", "o", "n", "-", "s", "c", "h",
      "e", "m", "a", ".", "o", "r", "g", "/", "d", "r", "a", "f", "t", "-", "0",
      "7", "/", "s", "c", "h", "e", "m", "a", "#">>

\* {"type": t}
TypeFragment(t) == PDict(<< <<k_type, PStr(t)>> >>)

\* The fragments parse_type builds from the outcome(s) of _lookup_scalar;
\* `except ValueError: return {}`.
ScalarFragment(t) == IF t.ok THEN TypeFragment(t.val) ELSE PDict(<<>>)
ArrayFragment(t) ==
    IF t.ok
    THEN PDict(<< <<k_type, PStr(v_array)>>, <<k_items, TypeFragment(t.val)>> >>)
    ELSE PDict(<<>>)
AnyOfFragment(types) ==
    IF \E i \in 1..Len(types) : ~types[i].ok THEN PDict(<<>>)
    ELSE PDict(<< <<k_anyOf,
            PList([i \in 1..Len(types) |-> TypeFragment(types[i].val)])>> >>)
LookupEach(parts) == [i \in 1..Len(parts) |-> lookup_scalar(Strip(parts[i]))]

\* parse_type
parse_type(type_hint) ==
    IF Contains(type_hint, <<"|">>)
    THEN AnyOfFragment(LookupEach(Split(type_hint, "|")))
    ELSE IF StartsWith(type_hint, <<"O", "p", "t", "i", "o", "n", "a", "l", "[">>)
    THEN ScalarFragment(lookup_scalar(SliceToLast(type_hint, 9)))
    ELSE IF StartsWith(type_hint, <<"L", "i", "s", "t", "[">>)
    THEN ArrayFragment(lookup_scalar(SliceToLast(type_hint, 5)))
    ELSE ScalarFragment(lookup_scalar(type_hint))

\* has_default_defined = type(dc_field.default) == dataclasses._MISSING_TYPE:
\* true of a field WITHOUT a default.
has_default_defined(dc_field) == dc_field.default = MISSING

\* schema["properties"][dc_key] for one field.
Property(dc_field, fragment) ==
    IF ~has_default_defined(dc_field)
    THEN PDict(SetItem(fragment.items, k_default, dc_field.default))
    ELSE fragment

\* schema["required"] after one field.
Required(dc_field, required) ==
    IF dc_field.init THEN Append(required, PStr(dc_field.name)) ELSE required

\* The loop of generate_schema over dc.__dataclass_fields__: the properties
\* and the required list after the given fields.
RECURSIVE SchemaFields(_, _, _)
SchemaFields(fields, properties, required) ==
    IF fields = <<>> THEN <<properties, required>>
    ELSE SchemaFields(Tail(fields),
             SetItem(properties, Head(fields).name,
                     Property(Head(fields), parse_type(TypeStr(Head(fields).type)))),
             Required(Head(fields), required))

SchemaDocument(r) ==
    PDict(<< <<k_schema, PStr(Draft07)>>,
             <<k_type, PStr(v_object)>>,
             <<k_properties, PDict(r[1])>>,
             <<k_required, PList(r[2])>>,
             <<k_additionalProperties, PBool(FALSE)>> >>)

\* generate_schema
generate_schema(dc) == SchemaDocument(SchemaFields(dc.fields, <<>>, <<>>))

(***************************************************************************)
(* The values the operations are applied to.                               *)
(***************************************************************************)
v_Ford == <<"F", "o", "r", "d">>
v_Focus == <<"F", "o", "c", "u", "s">>
v_red == <<"r", "e", "d">>
NotJson == <<"{", "n", "o", "t", " ", "j", "s", "o", "n">>

\* Every text of at most MaxTextLen of these characters.
ShortTexts ==
    UNION {[1..n -> {"{", "}", QUOTE, ":", " ", "0", "1", "a"}] : n \in 0..MaxTextLen}

\* Values that conform to a declared scalar type.
TypeValues(type) ==
    IF type.args[1] = s_str THEN {PStr(v_Ford), PStr(v_Focus), PStr(v_red)}
    ELSE IF type.args[1] = s_int THEN {PInt(2020), PBool(TRUE)}
    ELSE IF type.args[1] = s_dict
         THEN {PDict(<<>>), PDict(<< <<<<"k">>, PInt(1)>> >>)}
    ELSE {}

\* Values a mapping may hold under a key, well typed or not.
Probe == {PStr(v_red), PInt(2020), PBool(TRUE), PDict(<<>>)}

\* The record instances of data_class: every field holds a value of its
\* declared type.
Instances(data_class) ==
    { PInst(data_class.name,
            [i \in 1..Len(data_class.fields) |-> <<data_class.fields[i].name, f[i]>>]) :
        f \in { g \in [1..Len(data_class.fields) ->
                        UNION {TypeValues(fd.type) : fd \in Range(data_class.fields)}] :
                  \A i \in 1..Len(data_class.fields) :
                      g[i] \in TypeValues(data_class.fields[i].type) } }

Reverse(seq) == [i \in 1..Len(seq) |-> seq[Len(seq) + 1 - i]]

\* The mappings an application or a row may hold for data_class: over the
\* field names, each field absent or holding any probe value; and an
\* instance's values with the keys in another order, or with a key no field
\* declares.
Mappings(data_class) ==
    { PDict(SelectSeq([i \in 1..Len(data_class.fields) |->
                         <<data_class.fields[i].name, f[i]>>],
                      LAMBDA p : p[2] # [t |-> "absent"])) :
        f \in [1..Len(data_class.fields) -> Probe \cup {[t |-> "absent"]}] }
    \cup UNION { { PDict(Reverse(r.items)),
                   PDict(Append(r.items, <<<<"z">>, PInt(1)>>)) } :
                 r \in Instances(data_class) }

\* What an application may assign to the column's attribute.
CodecValues(data_class) ==
    Instances(data_class)
    \cup Mappings(data_class)
    \cup {PStr(json_dumps(m, FALSE)) : m \in Mappings(data_class)}
    \cup {PStr(t) : t \in ShortTexts}
    \cup { PStr(NotJson), PNone, PInt(1), PBool(TRUE), PList(<<>>),
           PList(<<PStr(data_class.fields[1].name)>>), PInst("Other", <<>>) }

\* What the database column may hold when a row is read: NULL, or JSON text.
StoredColumns(data_class) ==
    {PStr(json_dumps(v, FALSE)) :
        v \in Mappings(data_class) \cup {PNone, PInt(1), PStr(<<>>), PList(<<>>)}}

\* Initial values of a form field: JSON values.
AB == PDict(<< <<<<"a">>, PInt(1)>>, <<<<"b">>, PInt(2)>> >>)
BA == PDict(<< <<<<"b">>, PInt(2)>>, <<<<"a">>, PInt(1)>> >>)
BACompact ==
    <<"{", QUOTE, "b", QUOTE, ":", "2", ",", QUOTE, "a", QUOTE, ":", "1", "}">>
Initials ==
    { PNone, PBool(TRUE), PInt(0), PInt(1), PStr(<<>>), PStr(<<"a">>),
      PDict(<<>>), AB, PDict(<< <<<<"a">>, PBool(TRUE)>> >>), PList(<<PInt(1)>>) }

\* What a form may submit: text, and values that are native already.
FormInputs ==
    {PStr(t) : t \in ShortTexts}
    \cup {PStr(json_dumps(i, FALSE)) : i \in Initials \cup {BA, PBool(FALSE)}}
    \cup { PStr(BACompact), PStr(NotJson), PNone, PInt(0), PInt(1), PBool(TRUE),
           PDict(<<>>), BA, PList(<<>>), PList(<<PInt(1)>>), JSONString(<<>>),
           JSONString(<<"a">>), PInst("Car", <<>>) }

\* The record types the schema inferencer is applied to: the codec's, and
\* every dataclass of at most MaxFields fields over these annotations.
Annotations ==
    {Annotation(form, "scalar", <<s>>) :
        form \in {"class", "string"},
        s \in {s_str, s_int, s_float, s_dict, s_list, s_bool, s_None, s_Foo}}
    \cup {Annotation(form, shape, <<s_int>>) :
            form \in {"class", "string"}, shape \in {"optional", "list"}}
    \cup { Annotation("string", "union", <<s_int, s_str>>),
           Annotation("class", "union", <<s_int, s_None>>),
           Annotation("string", "union", <<s_int, s_Foo>>) }
FieldName(i) == <<"f">> \o IntDigits(i)

\* dataclasses rejects an init field without a default after one with a
\* default.
ValidFields(fields) ==
    \A i, j \in 1..Len(fields) :
        (i < j /\ fields[i].init /\ fields[i].default # MISSING /\ fields[j].init)
            => fields[j].default # MISSING

FieldsOf(g) ==
    [i \in 1..Len(g) |-> Field(FieldName(i), g[i][1], g[i][2], g[i][3])]

SchemaTypes ==
    CodecTypes \cup
    { RecordType("T", FieldsOf(g)) :
        g \in { h \in UNION {[1..n -> Annotations \X {MISSING, PInt(1)} \X BOOLEAN] :
                               n \in 0..MaxFields} : ValidFields(FieldsOf(h)) } }

(***************************************************************************)
(* The state machines.                                                     *)
(***************************************************************************)
VARIABLES
    data_class,  \* the record type the column (or the inferencer) is given
    disabled,    \* the form field's disabled flag
    initial,     \* the form field's initial value
    value,       \* the attribute behind the column; the form's submitted data
    column,      \* the database column: PNone for NULL, or the stored text
    saved,       \* the value whose save last wrote the column, if any
    call         \* the last call: the operation, its arguments, its outcome

vars == <<data_class, disabled, initial, value, column, saved, call>>


\* A model instance with an assigned attribute and an unwritten row, or a
\* row holding stored JSON that has not been read yet.
Init ==
    /\ data_class \in CodecTypes
    /\ disabled = FALSE
    /\ initial = PNone
    /\ \/ value \in CodecValues(data_class) /\ column = PNone
       \/ value = PNone /\ column \in StoredColumns(data_class)
    /\ saved = [some |-> FALSE]
    /\ call = [op |-> "none"]

\* field.to_python(value)
ToPython ==
    /\ call' = [op |-> "to_python", arg |-> value,
                out |-> to_python(data_class, value)]
    /\ UNCHANGED <<data_class, disabled, initial, value, column, saved>>

\* field.validate(value, model_instance)
Validate ==
    /\ call' = [op |-> "validate", arg |-> value,
                out |-> validate(data_class, value)]
    /\ UNCHANGED <<data_class, disabled, initial, value, column, saved>>

\* The row is written when get_prep_value returned: the database adapter
\* serializes the prepared value into the column, None as NULL.
Written(out) ==
    /\ column' = IF out.val.t = "None" THEN PNone
                 ELSE PStr(json_dumps(out.val, FALSE))
    /\ saved' = [some |-> TRUE, val |-> value]

SaveOutcome(out) ==
    /\ call' = [op |-> "get_prep_value", arg |-> value, out |-> out]
    /\ IF out.k = "return" THEN Written(out) ELSE UNCHANGED <<column, saved>>
    /\ UNCHANGED <<data_class, disabled, initial, value>>

\* Saving the row: get_prep_value, then the write.
Save == SaveOutcome(get_prep_value(data_class, value))

LoadOutcome(out) ==
    /\ call' = [op |-> "from_db_value", arg |-> column, out |-> out]
    /\ value' = IF out.k = "return" THEN out.val ELSE value
    /\ UNCHANGED <<data_class, disabled, initial, column, saved>>

\* Loading the row: from_db_value on the column's content; the result
\* becomes the attribute's value.
Load == LoadOutcome(from_db_value(data_class, column))

Next == ToPython \/ Validate \/ Save \/ Load

Spec == Init /\ [][Next]_vars

\* The form field adapter: a field with an initial value, and submitted
\* data.
FormInit ==
    /\ data_class = Car
    /\ disabled \in BOOLEAN
    /\ initial \in Initials
    /\ value \in FormInputs
    /\ column = PNone
    /\ saved = [some |-> FALSE]
    /\ call = [op |-> "none"]

\* form_field.to_python(data)
FormToPython ==
    /\ call' = [op |-> "form_to_python", arg |-> value,
                out |-> form_to_python(disabled, value)]
    /\ UNCHANGED <<data_class, disabled, initial, value, column, saved>>

\* form_field.has_changed(initial, data)
FormHasChanged ==
    /\ call' = [op |-> "has_changed", initial |-> initial, data |-> value,
                out |-> has_changed(disabled, initial, value)]
    /\ UNCHANGED <<data_class, disabled, initial, value, column, saved>>

FormNext == FormToPython \/ FormHasChanged

FormSpec == FormInit /\ [][FormNext]_vars

\* The schema inferencer, applied to a record type.
SchemaInit ==
    /\ data_class \in SchemaTypes
    /\ disabled = FALSE
    /\ initial = PNone
    /\ value = PNone
    /\ column = PNone
    /\ saved = [some |-> FALSE]
    /\ call = [op |-> "none"]

\* generate_schema(data_class)
GenerateSchema ==
    /\ call' = [op |-> "generate_schema", out |-> generate_schema(data_class)]
    /\ UNCHANGED <<data_class, disabled, initial, value, column, saved>>

SchemaSpec == SchemaInit /\ [][GenerateSchema]_vars

(***************************************************************************)
(* The claims.                                                             *)
(***************************************************************************)
FieldNames(dc) ==
    [i \in 1..Len(dc.fields) |-> dc.fields[i].name]
KeySeq(items) == [i \in 1..Len(items) |-> items[i][1]]

\* C1: saving a record instance r of the declared record type hands the
\* storage primitive a mapping with exactly one key per declared field, in
\* declaration order, holding r's value for that field, and to_python of
\* that mapping returns an instance equal to r.
C1_RoundTrip ==
    (call.op = "get_prep_value" /\ IsInstanceOf(call.arg, data_class))
        => /\ call.out.k = "return"
           /\ call.out.val.t = "dict"
           /\ KeySeq(call.out.val.items) = FieldNames(data_class)
           /\ \A i \in 1..Len(data_class.fields) :
                  call.out.val.items[i][2] = call.arg.items[i][2]
           /\ to_python(data_class, call.out.val) = Return(call.arg)
           /\ PyEq(to_python(data_class, call.out.val).val, call.arg)

FordFocus ==
    PInst("Car", << <<f_brand, PStr(v_Ford)>>, <<f_model, PStr(v_Focus)>>,
                    <<f_year, PInt(2020)>>, <<f_color, PStr(v_red)>> >>)

\* The Car of the end-to-end example has been saved as its mapping.
C1_Witness ==
    /\ call.op = "get_prep_value"
    /\ call.arg = FordFocus
    /\ call.out = Return(PDict(FordFocus.items))
    /\ column # PNone

\* C2: to_python returns None for None, the value itself for an instance,
\* a hydrated instance otherwise, or raises the validation error "Value
\* must be of type <name>"; no other error escapes.
C2_OnlyValidationError ==
    (call.op = "to_python" /\ call.arg.t \in {"None", "inst", "dict", "str"})
        => IF call.out.k = "return"
           THEN \/ call.arg.t = "None" /\ call.out.val = PNone
                \/ IsInstanceOf(call.out.val, data_class)
           ELSE call.out = ValidationError(TypeMessage(data_class), "invalid", call.arg)

\* C3: from_db_value yields None for a stored NULL, an instance for a
\* stored mapping that hydrates, and otherwise fails with the validation
\* error "Value must be of type <name>", not with any other error.
C3_StoredValidationError ==
    ( /\ call.op = "from_db_value"
      /\ \/ call.arg.t = "None"
         \/ json_loads(call.arg.s).ok /\ json_loads(call.arg.s).val.t = "dict" )
        => IF call.out.k = "return"
           THEN \/ call.arg.t = "None" /\ call.out.val = PNone
                \/ IsInstanceOf(call.out.val, data_class)
           ELSE /\ call.out.exc = "ValidationError"
                /\ call.out.message = TypeMessage(data_class)

\* The names of the fields without a default, in declaration order.
IsRequired(dc_field) == dc_field.default = MISSING
WithoutDefault(dc) ==
    [i \in 1..Len(SelectSeq(dc.fields, IsRequired)) |->
        PStr(SelectSeq(dc.fields, IsRequired)[i].name)]

\* C4: generate_schema lists every declared field in properties in
\* declaration order, and required holds exactly the fields without a
\* default, in declaration order.
C4_RequiredIsWithoutDefault ==
    call.op = "generate_schema"
        => /\ KeySeq(Lookup(call.out.items, k_properties).items) = FieldNames(data_class)
           /\ Lookup(call.out.items, k_required) = PList(WithoutDefault(data_class))

\* C5: a non-disabled form field's to_python returns None for every empty
\* form of input: None, "", and a text of whitespace only.
C5_BlankIsNone ==
    ( /\ call.op = "form_to_python"
      /\ ~disabled
      /\ \/ call.arg = PNone
         \/ call.arg.t = "str" /\ Strip(call.arg.s) = <<>> )
        => call.out = Return(PNone)

\* C6: a non-disabled form field's to_python, given a non-empty text that
\* is not valid JSON, raises the validation error with code "invalid", the
\* fixed message and the raw text as params.value: not a returned value,
\* not the parser's exception, not the codec's type-mismatch message.
C6_InvalidJsonReported ==
    ( /\ call.op = "form_to_python"
      /\ ~disabled
      /\ call.arg.t = "str"
      /\ call.arg.s # <<>>
      /\ ~json_loads(call.arg.s).ok )
        => /\ call.out = ValidationError(InvalidMessage, "invalid", call.arg)
           /\ call.out.k = "raise"
           /\ call.out.exc # "JSONDecodeError"
           /\ \A dc \in CodecTypes : call.out.message # TypeMessage(dc)

\* "{not json" has been submitted and reported.
C6_Witness ==
    /\ call.op = "form_to_python"
    /\ ~disabled
    /\ call.arg = PStr(NotJson)
    /\ call.out.k = "raise"
    /\ call.out.value = PStr(NotJson)

\* C7: validate accepts a value if and only if it is None or an instance of
\* the declared record type; anything else, a mapping that would hydrate
\* included, is rejected with "Value must be of type <name>"; the value is
\* left as it was.
C7_ValidateIdentityOnly ==
    call.op = "validate"
        => /\ IF call.arg.t = "None" \/ IsInstanceOf(call.arg, data_class)
              THEN call.out = Return(PNone)
              ELSE call.out = ValidationError(TypeMessage(data_class), "invalid", call.arg)
           /\ value = call.arg

\* A mapping that hydrates has been rejected by validate.
C7_Witness ==
    /\ call.op = "validate"
    /\ call.arg.t = "dict"
    /\ to_python(data_class, call.arg).k = "return"
    /\ call.out.k = "raise"

\* C8: for a non-disabled form field, a JSON initial value and submitted
\* text, has_changed is False if and only if to_python(data) succeeds and
\* the sorted-key serializations of initial and of to_python(data) are
\* equal; key order never makes it True, and True versus 1 does.
C8_HasChangedCanonical ==
    (call.op = "has_changed" /\ ~disabled /\ call.data.t = "str")
        => /\ call.out.k = "return"
           /\ (call.out.val = PBool(FALSE))
                <=> /\ form_to_python(FALSE, call.data).k = "return"
                    /\ json_dumps(call.initial, TRUE)
                         = json_dumps(form_to_python(FALSE, call.data).val, TRUE)
           /\ (call.initial = AB /\ call.data = PStr(BACompact))
                => call.out.val = PBool(FALSE)
           /\ (call.initial = PBool(TRUE) /\ call.data = PStr(<<"1">>))
                => call.out.val = PBool(TRUE)

\* has_changed({"a": 1, "b": 2}, '{"b":2,"a":1}') has returned False.
C8_Witness ==
    /\ call.op = "has_changed"
    /\ ~disabled
    /\ call.initial = AB
    /\ call.data = PStr(BACompact)
    /\ call.out = Return(PBool(FALSE))

\* The JSON Schema type of each scalar type name.
SchemaTypeOf(n) ==
    IF n = s_str THEN v_string
    ELSE IF n \in {s_int, s_float} THEN v_number
    ELSE IF n = s_dict THEN v_object
    ELSE IF n = s_list THEN v_array
    ELSE v_boolean

\* C9: generate_schema gives every field declared with a scalar type str,
\* int, float, dict, list or bool the fragment {"type": ...} of that type;
\* for Car, properties.year == {"type": "number"} and "year" is required.
C9_ScalarFragments ==
    call.op = "generate_schema"
        => /\ \A i \in 1..Len(data_class.fields) :
                ( /\ data_class.fields[i].type.shape = "scalar"
                  /\ data_class.fields[i].type.args[1]
                        \in {s_str, s_int, s_float, s_dict, s_list, s_bool} )
                    => /\ HasKey(Lookup(Lookup(call.out.items, k_properties).items,
                                        data_class.fields[i].name).items, k_type)
                       /\ Lookup(Lookup(Lookup(call.out.items, k_properties).items,
                                        data_class.fields[i].name).items, k_type)
                            = PStr(SchemaTypeOf(data_class.fields[i].type.args[1]))
           /\ data_class = Car
                => /\ Lookup(Lookup(call.out.items, k_properties).items, f_year)
                        = TypeFragment(v_number)
                   /\ \E j \in 1..Len(Lookup(call.out.items, k_required).xs) :
                        Lookup(call.out.items, k_required).xs[j] = PStr(f_year)

\* C10: whatever value v a save accepted, loading the row it wrote does not
\* raise, and returns None when v is None and otherwise an instance of the
\* record type equal to to_python(v).
C10_SavedLoadsBack ==
    (call.op = "from_db_value" /\ saved.some)
        => /\ call.out.k = "return"
           /\ IF saved.val.t = "None" THEN call.out.val = PNone
              ELSE /\ IsInstanceOf(call.out.val, data_class)
                   /\ call.out = to_python(data_class, saved.val)

=============================================================================
